---- MODULE Spec2Model ----
(***************************************************************************)
(* Model of TeensyController.ino: a Teensy 3.1 sketch that reads a PRR     *)
(* dial, a duty dial and a power-level sense line every 250 ms and         *)
(* programs the hardware PWM channel on the laser trigger pin.             *)
(*                                                                         *)
(* The sketch computes in C floats.  The model computes the same           *)
(* expressions in fixed point; a value is an integer count of the unit     *)
(* below, and every rounding the model makes is written out:               *)
(*   PRR, integratedError, currentPRR   1/100 kHz                          *)
(*   Duty                               1/40950000 percent                 *)
(*   PwrLvl                             1/1000000 percent                  *)
(*   pulse time                         1/100 ns                           *)
(*   hardware frequency                 Hz                                 *)
(* The Duty unit makes every division of GetDutyValue exact, and           *)
(* Duty * 40.95 is Duty / 1000000 in it.  All intermediate values fit in   *)
(* 32 bits.                                                                *)
(***************************************************************************)
EXTENDS Integers, Sequences, FiniteSets, TLC

VARIABLES pc, PRR, Duty, PwrLvl, integratedError, currentPRR,
          hwFreq, hwDuty, pinLog, serial, lcd, pins, twin, tick, held

vars == <<pc, PRR, Duty, PwrLvl, integratedError, currentPRR,
          hwFreq, hwDuty, pinLog, serial, lcd, pins, twin, tick, held>>

(* ------------------------------ bounds --------------------------------- *)

\* The PRR dial is sampled at both ends and on 3712 .. 3712 + DialSpan,
\* a stretch of the dial where one count is exactly 0.50 kHz.
DialSpan == 2

\* The duty dial and the power sense are sampled at i * 4095 / Levels.
DutyLevels == 2

PwrLevels == 1

\* Number of ticks of the drifting-request scenario.
MaxDriftTicks == 120

(* --------------------------- program constants ------------------------- *)

\* units per kHz of PRR values
PRRScale == 100

\* units per percent of Duty values
DutyScale == 40950000

\* const float errorThreshold = 1.5 (kHz)
errorThreshold == 150

Abs(x) == IF x < 0 THEN -x ELSE x

AllRaw == 0 .. 4095

PRRDialSamples == {0, 4095} \cup (3712 .. (3712 + DialSpan))

DutyDialSamples == {(i * 4095) \div DutyLevels : i \in 0 .. DutyLevels}

PwrSamples == {(i * 4095) \div PwrLevels : i \in 0 .. PwrLevels}

(* ------------------------------ GetPRRvalue ---------------------------- *)

\* PowTable[i] = 584 ^ (0.000244 * 2^(i-1)), in millionths.
PowTable == <<1001555, 1003113, 1006236, 1012512, 1025180, 1050994,
              1104588, 1220115, 1488680, 2216167, 4911395, 24121799>>

\* a * b of two values in millionths, without leaving 32 bits
MulFix(a, b) ==
    LET ah == a \div 1000
        al == a % 1000
        bh == b \div 1000
        bl == b % 1000
    IN  ah * bh + (ah * bl + al * bh) \div 1000 + (al * bl) \div 1000000

RECURSIVE PowBits(_, _, _)
PowBits(x, i, acc) ==
    IF i > 12 THEN acc
    ELSE PowBits(x \div 2, i + 1,
                 IF x % 2 = 1 THEN MulFix(acc, PowTable[i]) ELSE acc)

\* pow(A, B * x) with A = 584, B = 0.000244, in millionths: the product of
\* PowTable over the set bits of x, tabulated once over the dial range.
powOfDial == [x \in AllRaw |-> PowBits(x, 1, 1000000)]

pow(x) == powOfDial[x]

GetPRRvalue(raw) ==
    LET C == 19
        DialValue == IF raw > 4095 THEN 4095 ELSE raw
    IN  (pow(DialValue) + 5000) \div 10000 + C * PRRScale

(* ------------------------------ GetPwrLevel ---------------------------- *)

GetPwrLevel(raw) ==
    LET InputValue == IF raw > 4095 THEN 4095 ELSE raw
    IN  31007 * InputValue

(* ------------------------------ GetDutyValue --------------------------- *)

\* 100 * T / PeriodPRR with PeriodPRR = 1000000 / PRR (ns), in Duty units:
\* T * PRR * 40.95.  T is a multiple of 100 ns.
DutyOfOnTime(T, prr) == ((T * 4095) \div 100) * prr

\* Variant: the fixed 0.2 % .. 36 % map of the sketch's older comment
\* (M = 0.008742, C = 0.2), which ignores PRR.
GetDutyValue_FixedMap(prr, DialValue) ==
    357985 * DialValue + 8190000

GetDutyValue(prr, DialValue) ==
    LET minT == 100
        maxT == 600
        minDuty == DutyOfOnTime(minT, prr)
        maxDuty == DutyOfOnTime(maxT, prr)
        M == (maxDuty - minDuty) \div 4095
        C == minDuty
    IN  (M * DialValue) + C

\* (1000000 / PRR) * (Duty / 100) in 1/100 ns, rounded to nearest
PulseTime(prr, duty) ==
    LET q == duty \div prr
        r == duty % prr
    IN  (q \div 4095) * 10000
        + (((q % 4095) * 10000 + (r * 10000) \div prr) + 2047) \div 4095

(* ------------------------------ isUpdateNeeded ------------------------- *)

\* The machine state the functions below work on.
Machine ==
    [PRR |-> PRR, Duty |-> Duty, PwrLvl |-> PwrLvl,
     integratedError |-> integratedError, currentPRR |-> currentPRR,
     hwFreq |-> hwFreq, hwDuty |-> hwDuty, pinLog |-> pinLog,
     serial |-> serial, lcd |-> lcd]

\* Variant: only the positive side of the error window is tested.
isUpdateNeeded_OneSided(m) ==
    LET currentError == m.PRR - m.currentPRR
        integrated == m.integratedError + currentError
    IN  IF integrated > errorThreshold
        THEN [ret |-> TRUE,
              m |-> [m EXCEPT !.integratedError = 0, !.currentPRR = m.PRR]]
        ELSE [ret |-> FALSE,
              m |-> [m EXCEPT !.integratedError = integrated]]

\* Variant: the window test is >= instead of >.
isUpdateNeeded_Inclusive(m) ==
    LET currentError == m.PRR - m.currentPRR
        integrated == m.integratedError + currentError
    IN  IF (integrated >= errorThreshold) \/ (integrated <= (-1 * errorThreshold))
        THEN [ret |-> TRUE,
              m |-> [m EXCEPT !.integratedError = 0, !.currentPRR = m.PRR]]
        ELSE [ret |-> FALSE,
              m |-> [m EXCEPT !.integratedError = integrated]]

\* Variant: the error is compared without being integrated.
isUpdateNeeded_NoIntegrator(m) ==
    LET currentError == m.PRR - m.currentPRR
    IN  IF (currentError > errorThreshold) \/ (currentError < (-1 * errorThreshold))
        THEN [ret |-> TRUE,
              m |-> [m EXCEPT !.integratedError = 0, !.currentPRR = m.PRR]]
        ELSE [ret |-> FALSE,
              m |-> [m EXCEPT !.integratedError = currentError]]

\* Variant: currentPRR is not updated when an update is signalled.
isUpdateNeeded_StaleCurrent(m) ==
    LET currentError == m.PRR - m.currentPRR
        integrated == m.integratedError + currentError
    IN  IF (integrated > errorThreshold) \/ (integrated < (-1 * errorThreshold))
        THEN [ret |-> TRUE, m |-> [m EXCEPT !.integratedError = 0]]
        ELSE [ret |-> FALSE,
              m |-> [m EXCEPT !.integratedError = integrated]]

isUpdateNeeded(m) ==
    LET currentError == m.PRR - m.currentPRR
        integrated == m.integratedError + currentError
    IN  IF (integrated > errorThreshold) \/ (integrated < (-1 * errorThreshold))
        THEN [ret |-> TRUE,
              m |-> [m EXCEPT !.integratedError = 0, !.currentPRR = m.PRR]]
        ELSE [ret |-> FALSE,
              m |-> [m EXCEPT !.integratedError = integrated]]

(* -------------------------- ConfigurePulseGenerator -------------------- *)

analogWriteFrequency(m, hz) ==
    [m EXCEPT !.hwFreq = hz,
              !.pinLog = Append(@, [call |-> "analogWriteFrequency", value |-> hz])]

analogWrite(m, val) ==
    [m EXCEPT !.hwDuty = val,
              !.pinLog = Append(@, [call |-> "analogWrite", value |-> val])]

\* PRR * 1000: kHz to Hz
FrequencyHz(prr) == (prr * 1000) \div PRRScale

\* (uint16_t)((Duty * 40.95) + 0.5)
DutyCounts(duty) == ((duty + 500000) \div 1000000) % 65536

\* Variant: the duty write sits inside the if, with the frequency write.
ConfigurePulseGenerator_DutyGated(m) ==
    LET u == isUpdateNeeded(m)
    IN  IF u.ret
        THEN analogWrite(analogWriteFrequency(u.m, FrequencyHz(u.m.PRR)),
                         DutyCounts(u.m.Duty))
        ELSE u.m

ConfigurePulseGenerator(m) ==
    LET u == isUpdateNeeded(m)
        m1 == IF u.ret THEN analogWriteFrequency(u.m, FrequencyHz(u.m.PRR))
                       ELSE u.m
    IN  analogWrite(m1, DutyCounts(m1.Duty))

(* ------------------------------ SendSerialUpdate ----------------------- *)

\* Serial.print(float): two decimals, rounded; the result in hundredths
Print2(x, scale) == (x + scale \div 200) \div (scale \div 100)

SendSerialUpdate(m, in) ==
    [m EXCEPT !.serial =
        [Trigger |-> IF ~in.trig THEN "Int" ELSE "Ext",
         PRR |-> Print2(m.PRR, PRRScale),
         Duty |-> Print2(m.Duty, DutyScale),
         PulseTime |-> Print2(PulseTime(m.PRR, m.Duty), 100),
         PwrLvl |-> Print2(m.PwrLvl, 1000000),
         TemperatureAlarm |-> IF in.temp THEN 1 ELSE 0,
         EstopActive |-> IF in.estop THEN 1 ELSE 0]]

(* ------------------------------ UpdateLCD ------------------------------ *)

\* lcd.print(x, 1) of a value in thousandths: x + 0.05 truncated to a tenth
Print1(x) ==
    LET t == (x + 50) \div 100
    IN  ToString(t \div 10) \o "." \o ToString(t % 10)

LcdRow(col, text) == [col |-> col, text |-> text]

\* Variant: the temperature check comes before the emergency-stop check.
UpdateLCD_TempFirst(m, in) ==
    IF in.temp
    THEN [m EXCEPT !.lcd = <<LcdRow(1, "!TEMPERATURE!!"), LcdRow(4, "no laser")>>]
    ELSE IF in.estop
    THEN [m EXCEPT !.lcd = <<LcdRow(2, "ESTOP ACTIVE"), LcdRow(4, "no laser")>>]
    ELSE IF ~in.trig
    THEN LET pulseTime == PulseTime(m.PRR, m.Duty)
         IN  [m EXCEPT !.lcd =
                <<LcdRow(IF m.PRR >= 10 * PRRScale THEN 3 ELSE 4,
                         Print1(m.PRR * 10 + 49) \o " kHz"),
                  LcdRow(0, Print1(pulseTime * 10 + 49) \o " Pulse (ns)")>>]
    ELSE [m EXCEPT !.lcd = <<LcdRow(4, "EXTERNAL"), LcdRow(0, "")>>]

UpdateLCD(m, in) ==
    IF in.estop
    THEN [m EXCEPT !.lcd = <<LcdRow(2, "ESTOP ACTIVE"), LcdRow(4, "no laser")>>]
    ELSE IF in.temp
    THEN [m EXCEPT !.lcd = <<LcdRow(1, "!TEMPERATURE!!"), LcdRow(4, "no laser")>>]
    ELSE IF ~in.trig
    THEN LET pulseTime == PulseTime(m.PRR, m.Duty)
         IN  [m EXCEPT !.lcd =
                <<LcdRow(IF m.PRR >= 10 * PRRScale THEN 3 ELSE 4,
                         Print1(m.PRR * 10 + 49) \o " kHz"),
                  LcdRow(0, Print1(pulseTime * 10 + 49) \o " Pulse (ns)")>>]
    ELSE [m EXCEPT !.lcd = <<LcdRow(4, "EXTERNAL"), LcdRow(0, "")>>]

(* ------------------------------ setup and loop ------------------------- *)

\* The samples and line levels one handler reads.
Inputs(prrSet, dcSet, pwrSet, lines) ==
    [prr : prrSet, dc : dcSet, pwr : pwrSet,
     trig : lines, temp : lines, estop : lines]

\* The one element of a singleton set.  The handlers below run their calls
\* in sequence by mapping singleton sets, {f(x) : x \in {e}}, so that each
\* call works on the value the call before it produced.
Only(S) == CHOOSE x \in S : TRUE

setupBody(m, in) ==
    LET m0 == [m EXCEPT !.pinLog = <<>>,
                        !.lcd = <<LcdRow(3, "Welcome"), LcdRow(0, "System starting")>>,
                        !.serial = [text |-> "Initalising..."]]
        m1 == analogWriteFrequency(m0, FrequencyHz(m0.PRR))
        m2 == [m1 EXCEPT !.PRR = GetPRRvalue(in.prr)]
        m3 == [m2 EXCEPT !.Duty = GetDutyValue(m2.PRR, in.dc)]
    IN  Only({ConfigurePulseGenerator(x) : x \in {m3}})

\* Variant: the pulse generator is left alone while the emergency stop is
\* active.
loopBody_EstopGated(m, in) ==
    LET m0 == [m EXCEPT !.pinLog = <<>>]
        m1 == [m0 EXCEPT !.PRR = GetPRRvalue(in.prr)]
        m2 == [m1 EXCEPT !.Duty = GetDutyValue(m1.PRR, in.dc)]
        m3 == [m2 EXCEPT !.PwrLvl = GetPwrLevel(in.pwr)]
    IN  Only({UpdateLCD(m5, in) :
                m5 \in {SendSerialUpdate(m4, in) :
                   m4 \in {IF in.estop THEN x ELSE ConfigurePulseGenerator(x) :
                      x \in {m3}}}})

loopBody(m, in) ==
    LET m0 == [m EXCEPT !.pinLog = <<>>]
        m1 == [m0 EXCEPT !.PRR = GetPRRvalue(in.prr)]
        m2 == [m1 EXCEPT !.Duty = GetDutyValue(m1.PRR, in.dc)]
        m3 == [m2 EXCEPT !.PwrLvl = GetPwrLevel(in.pwr)]
    IN  Only({UpdateLCD(m5, in) :
                m5 \in {SendSerialUpdate(m4, in) :
                   m4 \in {ConfigurePulseGenerator(x) : x \in {m3}}}})

Commit(m) ==
    /\ PRR' = m.PRR
    /\ Duty' = m.Duty
    /\ PwrLvl' = m.PwrLvl
    /\ integratedError' = m.integratedError
    /\ currentPRR' = m.currentPRR
    /\ hwFreq' = m.hwFreq
    /\ hwDuty' = m.hwDuty
    /\ pinLog' = m.pinLog
    /\ serial' = m.serial
    /\ lcd' = m.lcd

NoInput == [prr |-> 0, dc |-> 0, pwr |-> 0,
            trig |-> FALSE, temp |-> FALSE, estop |-> FALSE]

\* Variant: currentPRR starts at the default PRR instead of 0.
ConstructedMachine_CurrentAtDefault ==
    [PRR |-> 300 * PRRScale, Duty |-> 5 * DutyScale, PwrLvl |-> 0,
     integratedError |-> 0, currentPRR |-> 300 * PRRScale,
     hwFreq |-> 0, hwDuty |-> 0, pinLog |-> <<>>,
     serial |-> [text |-> ""],
     lcd |-> <<LcdRow(0, ""), LcdRow(0, "")>>]

ConstructedMachine ==
    [PRR |-> 300 * PRRScale, Duty |-> 5 * DutyScale, PwrLvl |-> 0,
     integratedError |-> 0, currentPRR |-> 0,
     hwFreq |-> 0, hwDuty |-> 0, pinLog |-> <<>>,
     serial |-> [text |-> ""],
     lcd |-> <<LcdRow(0, ""), LcdRow(0, "")>>]

Init ==
    /\ pc = "setup"
    /\ PRR = ConstructedMachine.PRR
    /\ Duty = ConstructedMachine.Duty
    /\ PwrLvl = ConstructedMachine.PwrLvl
    /\ integratedError = ConstructedMachine.integratedError
    /\ currentPRR = ConstructedMachine.currentPRR
    /\ hwFreq = ConstructedMachine.hwFreq
    /\ hwDuty = ConstructedMachine.hwDuty
    /\ pinLog = ConstructedMachine.pinLog
    /\ serial = ConstructedMachine.serial
    /\ lcd = ConstructedMachine.lcd
    /\ pins = NoInput
    /\ twin = [m |-> ConstructedMachine, pins |-> NoInput]
    /\ tick = 0
    /\ held = FALSE

\* setup() reads the two dials only.
setupFrom(prrSet) ==
    /\ pc = "setup"
    /\ \E in \in Inputs(prrSet, DutyDialSamples, {0}, {FALSE}) :
          /\ \E m \in {setupBody(Machine, in)} : Commit(m)
          /\ pins' = in
    /\ pc' = "loop"
    /\ UNCHANGED <<twin, tick, held>>

setup == setupFrom(PRRDialSamples)

\* One expiry of refreshMetro: the body of loop().
loopWith(prrSet, pwrSet, lines) ==
    /\ pc = "loop"
    /\ \E in \in Inputs(prrSet, DutyDialSamples, pwrSet, lines) :
          /\ \E m \in {loopBody(Machine, in)} : Commit(m)
          /\ pins' = in
    /\ UNCHANGED <<pc, twin, tick, held>>

loop == loopWith(PRRDialSamples, PwrSamples, BOOLEAN)

Next == setup \/ loop

Spec == Init /\ [][Next]_vars

(* ------------------- a request that is held --------------------------- *)

\* The operator lets go of the PRR dial: from here on every tick samples
\* the PRR dial where the last handler sampled it.
hold ==
    /\ pc = "loop"
    /\ ~held
    /\ held' = TRUE
    /\ UNCHANGED <<pc, PRR, Duty, PwrLvl, integratedError, currentPRR,
                   hwFreq, hwDuty, pinLog, serial, lcd, pins, twin, tick>>

\* The filter reads PRR only: the ticks of this scenario keep the power
\* sense at 0 and the three lines low.
freeLoop == ~held /\ loopWith(PRRDialSamples, {0}, {FALSE})

heldLoop == held /\ loopWith({pins.prr}, {0}, {FALSE})

NextHold == setup \/ freeLoop \/ hold \/ heldLoop

\* loop() runs for ever and refreshMetro expires every 250 ms.
SpecHold == Init /\ [][NextHold]_vars /\ WF_vars(heldLoop)

(* ------------------- setup over the whole PRR dial --------------------- *)

setupAll == setupFrom(AllRaw)

NextSetup == setupAll

SpecSetup == Init /\ [][NextSetup]_vars

(* ------------------- the filter under a drifting request --------------- *)

\* ConfigurePulseGenerator called with PRR = 0.5 kHz * tick, from the
\* constructed filter state.
DriftTick ==
    /\ tick < MaxDriftTicks
    /\ tick' = tick + 1
    /\ Commit(ConfigurePulseGenerator(
           [Machine EXCEPT !.pinLog = <<>>, !.PRR = (tick + 1) * (PRRScale \div 2)]))
    /\ UNCHANGED <<pc, pins, twin, held>>

NextDrift == DriftTick

SpecDrift == Init /\ [][NextDrift]_vars

(* ------------------- two runs on the same dials ------------------------ *)

\* The reference run: the same dial samples, with the three lines low and
\* the power sense at 0.  The duty dial of the two runs is sampled at its
\* two ends.
Reference(in) ==
    [in EXCEPT !.pwr = 0, !.trig = FALSE, !.temp = FALSE, !.estop = FALSE]

twinSetup ==
    /\ pc = "setup"
    /\ \E in \in Inputs(PRRDialSamples, {0, 4095}, {0}, {FALSE}) :
          /\ Commit(setupBody(Machine, in))
          /\ pins' = in
          /\ twin' = [m |-> setupBody(twin.m, in), pins |-> in]
    /\ pc' = "loop"
    /\ UNCHANGED <<tick, held>>

twinLoop ==
    /\ pc = "loop"
    /\ \E in \in Inputs(PRRDialSamples, {0, 4095}, PwrSamples, BOOLEAN) :
          /\ Commit(loopBody(Machine, in))
          /\ pins' = in
          /\ twin' = [m |-> loopBody(twin.m, Reference(in)), pins |-> Reference(in)]
    /\ UNCHANGED <<pc, tick, held>>

NextTwin == twinSetup \/ twinLoop

SpecTwin == Init /\ [][NextTwin]_vars

(* =============================== properties ============================ *)

FreqWrites(log) == {i \in DOMAIN log : log[i].call = "analogWriteFrequency"}

DutyWrites(log) == {i \in DOMAIN log : log[i].call = "analogWrite"}

\* setup() has run and no tick yet.
AfterSetup == pc = "loop" /\ "text" \in DOMAIN serial

\* The last handler was a tick of loop().
AfterTick == pc = "loop" /\ "PRR" \in DOMAIN serial

\* ConfigurePulseGenerator signalled an update in the last handler: setup()
\* writes the frequency once on its own before the call.
Applied ==
    Cardinality(FreqWrites(pinLog)) = (IF AfterSetup THEN 2 ELSE 1)

(* ---------------------------------- C1 --------------------------------- *)

\* C1: every ConfigurePulseGenerator call first adds (PRR - currentPRR) to
\* integratedError; it writes the frequency iff the sum is outside
\* +-errorThreshold (strictly), and then currentPRR becomes PRR and
\* integratedError 0; otherwise currentPRR keeps its value and
\* integratedError keeps the sum.
C1_FilterRule ==
    [][LET sum == integratedError + (PRR' - currentPRR)
       IN  /\ Applied' <=> (Abs(sum) > errorThreshold)
           /\ Applied' => (currentPRR' = PRR' /\ integratedError' = 0)
           /\ ~Applied' => (currentPRR' = currentPRR /\ integratedError' = sum)]_vars

\* A tick that left the frequency alone with a negative accumulated error.
C1_Witness ==
    AfterTick /\ ~Applied /\ integratedError < 0 /\ PRR # currentPRR

(* ---------------------------------- C2 --------------------------------- *)

\* C2: every tick issues exactly one duty write, carrying the tick's Duty
\* scaled to 0..4095 and rounded to nearest, whether or not the filter
\* signalled an update; a tick without update issues only that write.
C2_DutyEveryTick ==
    AfterTick =>
        /\ Cardinality(DutyWrites(pinLog)) = 1
        /\ \A i \in DutyWrites(pinLog) :
              /\ 2 * Abs(pinLog[i].value * (DutyScale \div 4095) * 100 - Duty)
                    <= (DutyScale \div 4095) * 100
              /\ hwDuty = pinLog[i].value
        /\ Len(pinLog) = 1 + Cardinality(FreqWrites(pinLog))
        /\ Cardinality(FreqWrites(pinLog)) <= 1

\* A tick without frequency write that wrote a duty above the minimum.
C2_Witness ==
    AfterTick /\ ~Applied /\ pinLog = <<[call |-> "analogWrite", value |-> hwDuty]>>
              /\ pins.dc > 0

(* ---------------------------------- C3 --------------------------------- *)

\* C3: the ConfigurePulseGenerator call of setup() always signals an update
\* and programs PRR * 1000 Hz, for every PRR dial sample of 0 .. 4095.
C3_FirstCallApplies ==
    AfterSetup =>
        /\ Cardinality(FreqWrites(pinLog)) = 2
        /\ PRR = GetPRRvalue(pins.prr)
        /\ hwFreq * PRRScale = PRR * 1000
        /\ pinLog[2] = [call |-> "analogWriteFrequency", value |-> hwFreq]
        /\ currentPRR = PRR
        /\ integratedError = 0

\* setup() done with the dial at a sample whose PRR is within the window of
\* the default 300 kHz.
C3_Witness ==
    AfterSetup /\ Abs(PRR - 300 * PRRScale) <= errorThreshold /\ PRR # 300 * PRRScale

(* ---------------------------------- C4 --------------------------------- *)

\* C4: with the request at 0.5 kHz * n on call n, from the constructed
\* filter state, the frequency is written on calls 3, 6, 9, ... and on no
\* other call.
C4_EveryThirdTick ==
    tick > 0 => ((Cardinality(FreqWrites(pinLog)) = 1) <=> (tick % 3 = 0))

C4_Witness ==
    tick = 6 /\ Cardinality(FreqWrites(pinLog)) = 1 /\ currentPRR = 3 * PRRScale

(* ---------------------------------- C5 --------------------------------- *)

\* C5: a run and the reference run on the same dial samples, the reference
\* with every line low, issue the same writes to the laser pin in every
\* handler, and a tick with a fault active still issues its duty write.
C5_LinesDoNotReachOutput ==
    /\ pinLog = twin.m.pinLog
    /\ hwFreq = twin.m.hwFreq
    /\ hwDuty = twin.m.hwDuty
    /\ (AfterTick /\ (pins.estop \/ pins.temp)) => DutyWrites(pinLog) # {}

\* A tick with the emergency stop active that reprogrammed the frequency.
C5_Witness ==
    AfterTick /\ pins.estop /\ ~twin.pins.estop /\ Applied
              /\ pins.pwr # twin.pins.pwr

(* ---------------------------------- C6 --------------------------------- *)

Unsafe == pins.estop \/ pins.temp \/ pins.trig

FixedScreen ==
    IF pins.estop
    THEN <<LcdRow(2, "ESTOP ACTIVE"), LcdRow(4, "no laser")>>
    ELSE IF pins.temp
    THEN <<LcdRow(1, "!TEMPERATURE!!"), LcdRow(4, "no laser")>>
    ELSE <<LcdRow(4, "EXTERNAL"), LcdRow(0, "")>>

\* The tenths of a value in hundredths, rounded up from 0.001.
Tenths(x) == (x + 9) \div 10

LiveScreen ==
    /\ lcd[1].text = ToString(Tenths(PRR) \div 10) \o "." \o
                     ToString(Tenths(PRR) % 10) \o " kHz"
    /\ lcd[2].text = ToString(Tenths(PulseTime(PRR, Duty)) \div 10) \o "." \o
                     ToString(Tenths(PulseTime(PRR, Duty)) % 10) \o " Pulse (ns)"

LiveLine ==
    /\ serial.PRR = PRR
    /\ serial.PwrLvl * 10000 <= PwrLvl + 5000
    /\ serial.PwrLvl * 10000 > PwrLvl - 5000
    /\ serial.Duty * (DutyScale \div 100) <= Duty + DutyScale \div 200
    /\ serial.Duty * (DutyScale \div 100) > Duty - DutyScale \div 200
    /\ serial.PulseTime = PulseTime(PRR, Duty)

\* C6 as stated: on a tick with a fault active or the trigger external,
\* both the display and the diagnostic line carry the fixed representation
\* instead of the live values.
C6_Original ==
    (AfterTick /\ Unsafe) =>
        /\ lcd = FixedScreen
        /\ {"PRR", "Duty", "PulseTime"} \cap DOMAIN serial = {}

\* C6 amended: on such a tick the display carries the fixed screen
\* (emergency stop before temperature before external), and the live screen
\* otherwise; the diagnostic line carries the live PRR, Duty, pulse time and
\* PwrLvl on every tick, with the trigger source and the two fault flags.
C6_Amended ==
    AfterTick =>
        /\ Unsafe => lcd = FixedScreen
        /\ ~Unsafe => LiveScreen
        /\ LiveLine
        /\ serial.Trigger = (IF pins.trig THEN "Ext" ELSE "Int")
        /\ serial.TemperatureAlarm = (IF pins.temp THEN 1 ELSE 0)
        /\ serial.EstopActive = (IF pins.estop THEN 1 ELSE 0)

\* Both faults active at once: the emergency-stop screen wins.
C6_Witness ==
    AfterTick /\ pins.estop /\ pins.temp /\ lcd[1].text = "ESTOP ACTIVE"
              /\ serial.PRR = PRR

(* ---------------------------------- C7 --------------------------------- *)

\* C7: on every tick with PwrLvl above 50 %, the Duty written is at most
\* Dlim = -0.9166 * PwrLvl + 145.83.  Both sides in 1/10000 percent.
C7_PowerLimit ==
    LET pwr == PwrLvl \div 100
        Dlim == 1458300 - (9166 * (pwr \div 10000)
                           + (9166 * (pwr % 10000)) \div 10000)
    IN  (AfterTick /\ PwrLvl > 50 * 1000000) => Duty \div 4095 <= Dlim

(* ---------------------------------- C8 --------------------------------- *)

\* 100 * T / period of the current PRR, for T in hundreds of ns
DutyPctOf(hundredsNs) == hundredsNs * (DutyScale \div 10000) * PRR

\* C8: after setup() and after every tick, Duty lies between the duty of a
\* 100 ns pulse and the duty of a 600 ns pulse at the PRR of the same
\* handler, the pulse time lies in [100 ns, 600 ns], Duty lies in
\* [0, 100] %, and the dial ends map to the two bounds.
C8_DutyWindow ==
    pc = "loop" =>
        /\ PRR = GetPRRvalue(pins.prr)
        /\ DutyPctOf(1) <= Duty
        /\ Duty <= DutyPctOf(6)
        /\ PulseTime(PRR, Duty) >= 100 * 100
        /\ PulseTime(PRR, Duty) <= 600 * 100
        /\ Duty >= 0
        /\ Duty \div 100 <= DutyScale
        /\ pins.dc = 0 => Duty = DutyPctOf(1)
        /\ pins.dc = 4095 => Duty = DutyPctOf(6)

\* A tick that changed PRR and computed a Duty strictly inside the window.
C8_Witness ==
    AfterTick /\ Applied /\ DutyPctOf(1) < Duty /\ Duty < DutyPctOf(6)

(* ---------------------------------- C9 --------------------------------- *)

\* The hardware runs at the requested PRR and the filter is at rest on it.
Tracked == hwFreq * PRRScale = PRR * 1000 /\ currentPRR = PRR

\* C9: once the request is held, the hardware frequency is programmed to
\* PRR * 1000 Hz within finitely many ticks; and from a state with
\* PRR = currentPRR and integratedError = 0 a tick that keeps PRR writes no
\* frequency and keeps the filter state.
C9_HeldRequest ==
    /\ held ~> Tracked
    /\ [][(pc = "loop" /\ PRR = currentPRR /\ integratedError = 0 /\ PRR' = PRR
              /\ held' = held)
             => /\ FreqWrites(pinLog') = {}
                /\ currentPRR' = currentPRR
                /\ integratedError' = 0]_vars

\* A held request, at first 0.5 kHz away from the applied PRR, has been
\* applied and the tick after wrote no frequency.
C9_Witness ==
    held /\ AfterTick /\ PRR = currentPRR /\ integratedError = 0
         /\ FreqWrites(pinLog) = {} /\ pins.prr = 3713

(* ---------------------------------- C10 -------------------------------- *)

\* C10: after every ConfigurePulseGenerator call the programmed frequency
\* is currentPRR * 1000 Hz, |integratedError| <= errorThreshold, and PRR is
\* within 2 * errorThreshold of the programmed frequency.
C10_FilterInvariant ==
    pc = "loop" =>
        /\ hwFreq * PRRScale = currentPRR * 1000
        /\ Abs(integratedError) <= errorThreshold
        /\ Abs(PRR * 1000 - hwFreq * PRRScale) <= 2 * errorThreshold * 1000

\* A tick that left the frequency away from the request with the error at
\* the threshold.
C10_Witness ==
    AfterTick /\ ~Applied /\ Abs(integratedError) = errorThreshold
              /\ PRR # currentPRR

====
